---------------------------- MODULE Spec2Model ----------------------------
(***************************************************************************)
(* A model of MongoDataAccess (src/src/mongo-data-access.class.ts): the    *)
(* field-rename and identifier-coercion mapping, the CRUD operations that  *)
(* apply it around the driver calls, and the collection drop.              *)
(*                                                                         *)
(* JavaScript objects and arrays are reference values, so documents and    *)
(* arrays live in a heap and the mapping operators are heap transformers:  *)
(* a shallow copy allocates, an assignment to document[key] rewrites the   *)
(* object the reference points to.                                         *)
(***************************************************************************)
EXTENDS Integers, Sequences, FiniteSets, TLC

VARIABLES
  fieldsPropsMap,  \* this.fieldsPropsMap: Map entries in insertion order, <<[field, prop]>>
  idFields,        \* this.idFields: sequence of selectors (exact name or RegExp)
  heap,            \* the objects (documents, arrays) of the call in progress
  mapper,          \* the mapper run: input reference, current reference, steps applied
  store,           \* the collection's records, as the driver holds them
  call,            \* the last facade operation: arguments, what the driver got, result
  collections,     \* number of collections the driver lists under collectionName
  drops            \* the drop() calls in flight or finished, and the driver calls made

vars == <<fieldsPropsMap, idFields, heap, mapper, store, call, collections, drops>>

---------------------------------------------------------------------------
(* Bounds of the model.                                                    *)

\* largest number of fields of a caller's document
MaxFields == 2
\* largest number of records the collection holds
MaxStore == 1
\* number of drop() calls issued
MaxDrops == 3

---------------------------------------------------------------------------
(* Values.  Every value is a record of the same shape, so that any two     *)
(* values can be compared: t is the runtime type, v the string payload     *)
(* (the string itself, or an ObjectId's 24-digit hex form), r the heap     *)
(* reference of an array.                                                  *)

Null == [t |-> "null", v |-> "", r |-> 0]
Str(s) == [t |-> "str", v |-> s, r |-> 0]
Oid(h) == [t |-> "oid", v |-> h, r |-> 0]
Arr(r) == [t |-> "arr", v |-> "", r |-> r]

\* the strings that are 24 hex digits: the ones new ObjectId(string) accepts
HexStrings == {"h1", "h2"}
\* the hex form of an identifier that new ObjectId() generates
Generated == "gen"

(* Heap objects.  A document is the sequence of its own properties in      *)
(* insertion order, <<[k, v]>>; an array is the sequence of its elements,  *)
(* each under the key "".                                                  *)

Has(d, k) == \E i \in 1..Len(d) : d[i].k = k
Idx(d, k) == CHOOSE i \in 1..Len(d) : d[i].k = k
Get(d, k) == d[Idx(d, k)].v
Set(d, k, v) == IF Has(d, k) THEN [d EXCEPT ![Idx(d, k)].v = v]
                ELSE Append(d, [k |-> k, v |-> v])
Del(d, k) == SelectSeq(d, LAMBDA e : e.k # k)
Elem(v) == [k |-> "", v |-> v]

\* the reference of a null or undefined argument
NoRef == 0

\* an allocation: the heap with the object appended, and its reference
Alloc(h, obj) == [heap |-> Append(h, obj), ref |-> Len(h) + 1]

\* a slip of Object.assign({}, src): the object itself, not a copy of it
ObjectAssignAlias(h, src) ==
  IF src = NoRef THEN Alloc(h, <<>>) ELSE [heap |-> h, ref |-> src]

\* Object.assign({}, src): a new object with src's own properties (a
\* shallow copy: an array-valued property still refers to src's array)
ObjectAssign(h, src) == Alloc(h, IF src = NoRef THEN <<>> ELSE h[src])

(* What a document holds, arrays read through: the form in which documents *)
(* are compared and in which the driver serialises them.                   *)
Deep(h, ref) ==
  [i \in 1..Len(h[ref]) |->
     [k |-> h[ref][i].k, t |-> h[ref][i].v.t, v |-> h[ref][i].v.v,
      items |-> IF h[ref][i].v.t = "arr" THEN h[h[ref][i].v.r] ELSE <<>>]]
Fields(dd) == {dd[i] : i \in 1..Len(dd)}
\* same key set and same values, whatever the property order
SameDoc(d1, d2) == Fields(d1) = Fields(d2)

---------------------------------------------------------------------------
(* mapDataToDocument, lines 102-119.                                       *)

RECURSIVE RenameLoop(_, _, _, _)
\* the for loop of lines 106-112, from entry i on
RenameLoop(h, dataObject, document, i) ==
  IF i > Len(fieldsPropsMap) THEN h
  ELSE LET field == fieldsPropsMap[i].field
           prop == fieldsPropsMap[i].prop
           h1 == IF Has(h[dataObject], prop)
                 THEN LET value == Get(h[dataObject], prop)
                          written == [h EXCEPT ![document] = Set(@, field, value)]
                      IN [written EXCEPT ![document] = Del(@, prop)]
                 ELSE h
       IN RenameLoop(h1, dataObject, document, i + 1)

\* a slip of lines 113-116: the null _id is kept
DeleteNullIdNever(h, document) == h

\* lines 113-116: const { _id } = document; if (_id == null) delete document["_id"]
DeleteNullId(h, document) ==
  IF ~Has(h[document], "_id") \/ Get(h[document], "_id") = Null
  THEN [h EXCEPT ![document] = Del(@, "_id")]
  ELSE h

mapDataToDocument(h, data) ==
  IF data = NoRef THEN Alloc(h, <<>>)
  ELSE LET a1 == ObjectAssign(h, data)
           a2 == ObjectAssign(a1.heap, a1.ref)
           h3 == RenameLoop(a2.heap, a1.ref, a2.ref, 1)
       IN [heap |-> DeleteNullId(h3, a2.ref), ref |-> a2.ref]

---------------------------------------------------------------------------
(* mapDocumentToData, lines 121-132.                                       *)

\* a slip of line 127: the stored name is kept
PropOfUnmapped(fieldName) == fieldName

\* line 127: this.fieldsPropsMap.get(fieldName) ?? fieldName
PropOf(fieldName) ==
  IF \E i \in 1..Len(fieldsPropsMap) : fieldsPropsMap[i].field = fieldName
  THEN fieldsPropsMap[CHOOSE i \in 1..Len(fieldsPropsMap) :
                        fieldsPropsMap[i].field = fieldName].prop
  ELSE fieldName

RECURSIVE CopyLoop(_, _, _, _)
\* the for-in loop of lines 124-130, from property i on
CopyLoop(h, documentObject, data, i) ==
  IF i > Len(h[documentObject]) THEN h
  ELSE LET e == h[documentObject][i]
       IN CopyLoop([h EXCEPT ![data] = Set(@, PropOf(e.k), e.v)],
                   documentObject, data, i + 1)

mapDocumentToData(h, document) ==
  LET a1 == ObjectAssign(h, document)
      a2 == Alloc(a1.heap, <<>>)
  IN [heap |-> CopyLoop(a2.heap, a1.ref, a2.ref, 1), ref |-> a2.ref]

---------------------------------------------------------------------------
(* parseStringsIDs, lines 134-160.  A run either returns the document or   *)
(* throws; threw records which.                                            *)

\* new ObjectId(value) accepts this value (it throws on any other)
Parsable(value) ==
  \/ value.t = "oid"
  \/ value.t = "null"
  \/ value.t = "str" /\ value.v \in HexStrings

\* parseValue, lines 135-141: an ObjectId gives its hex string; anything
\* else goes to new ObjectId(value), which makes the identifier a hex
\* string denotes and generates one for null
parseValue(value) ==
  CASE value.t = "oid" -> Str(value.v)
    [] value.t = "str" -> Oid(value.v)
    [] OTHER -> Oid(Generated)

\* a selector of idFields: an exact name, or a RegExp given by the keys
\* it matches
Exact(name) == [re |-> FALSE, name |-> name, matches |-> {}]
Pattern(source, keys) == [re |-> TRUE, name |-> source, matches |-> keys]

\* value.map((item) => parseValue(item)), line 149: a new array
MapParse(h, arr) == Alloc(h, [i \in 1..Len(h[arr]) |-> Elem(parseValue(h[arr][i].v))])
ItemsParsable(h, arr) == \A i \in 1..Len(h[arr]) : Parsable(h[arr][i].v)

\* lines 147-155: one selector against one property; value is the
\* property's value read at line 145, before any selector ran
ApplySelector(s, document, key, value, sel) ==
  IF s.threw THEN s
  ELSE IF sel.re /\ key \in sel.matches
  THEN IF value.t = "arr"
       THEN IF ItemsParsable(s.heap, value.r)
            THEN LET a == MapParse(s.heap, value.r)
                 IN [s EXCEPT !.heap = [a.heap EXCEPT ![document] = Set(@, key, Arr(a.ref))]]
            ELSE [s EXCEPT !.threw = TRUE]
       ELSE IF Parsable(value)
            THEN [s EXCEPT !.heap[document] = Set(@, key, parseValue(value))]
            ELSE [s EXCEPT !.threw = TRUE]
  ELSE IF ~sel.re /\ key = sel.name
  THEN IF Parsable(value)
       THEN [s EXCEPT !.heap[document] = Set(@, key, parseValue(value))]
       ELSE [s EXCEPT !.threw = TRUE]
  ELSE s

RECURSIVE SelectorLoop(_, _, _, _, _)
\* the loop of line 146, from selector j on
SelectorLoop(s, document, key, value, j) ==
  IF j > Len(idFields) THEN s
  ELSE SelectorLoop(ApplySelector(s, document, key, value, idFields[j]),
                    document, key, value, j + 1)

RECURSIVE KeyLoop(_, _, _)
\* the for-in loop of line 143, from property i on
KeyLoop(s, document, i) ==
  IF s.threw \/ i > Len(s.heap[document]) THEN s
  ELSE LET e == s.heap[document][i]
       IN KeyLoop(SelectorLoop(s, document, e.k, e.v, 1), document, i + 1)

parseStringsIDs(h, document) ==
  LET s == KeyLoop([heap |-> h, threw |-> FALSE], document, 1)
  IN [heap |-> s.heap, ref |-> document, threw |-> s.threw]

---------------------------------------------------------------------------
(* Documents as a caller or the driver builds them.                        *)

RECURSIVE Build(_, _, _, _)
\* the object for the deep document dd, its arrays allocated before it
Build(h, dd, acc, i) ==
  IF i > Len(dd) THEN Alloc(h, acc)
  ELSE IF dd[i].t = "arr"
  THEN LET a == Alloc(h, dd[i].items)
       IN Build(a.heap, dd, Append(acc, [k |-> dd[i].k, v |-> Arr(a.ref)]), i + 1)
  ELSE Build(h, dd, Append(acc, [k |-> dd[i].k, v |-> [t |-> dd[i].t, v |-> dd[i].v, r |-> 0]]), i + 1)

\* a field of a deep document
Scalar(k, val) == [k |-> k, t |-> val.t, v |-> val.v, items |-> <<>>]
Array(k, items) == [k |-> k, t |-> "arr", v |-> "", items |-> items]

\* the documents of at most MaxFields fields, with keys from keys (each
\* key once, in the order of keyOrder) and field values from values
DocsOver(keyOrder, values) ==
  LET n == Len(keyOrder)
      Picks == {p \in SUBSET (1..n) : Cardinality(p) <= MaxFields}
      Nth(p, j) == CHOOSE x \in p : Cardinality({y \in p : y < x}) = j - 1
  IN UNION {
       {[j \in 1..Cardinality(p) |->
           [k |-> keyOrder[Nth(p, j)], t |-> f[Nth(p, j)].t, v |-> f[Nth(p, j)].v,
            items |-> f[Nth(p, j)].items]] : f \in [p -> values]}
       : p \in Picks}

\* field values: what a field may hold, key aside
FieldVal(val) == [t |-> val.t, v |-> val.v, items |-> <<>>]
ArrayVal(items) == [t |-> "arr", v |-> "", items |-> items]

---------------------------------------------------------------------------
(* The variables a specification does not use.                             *)

NoMapper == [given |-> <<>>, input |-> NoRef, cur |-> NoRef, steps |-> <<>>, threw |-> FALSE]
NoCall == [op |-> "none"]

---------------------------------------------------------------------------
(* SpecRename: the two renaming transforms on their own.  Init draws a     *)
(* rename table and a document; the actions apply mapDataToDocument and    *)
(* then mapDocumentToData to it.                                           *)

RenameKeys == <<"_id", "a", "b", "c">>
RenameNames == {"_id", "a", "b", "c"}
RenameValues == {FieldVal(Null), FieldVal(Str("x")), FieldVal(Str("y"))}

\* largest number of entries of a rename table
MaxEntries == 2

Entries == [field : RenameNames, prop : RenameNames]
\* Object.entries of an object: no stored name twice, any order
Tables ==
  {t \in UNION {[1..n -> Entries] : n \in 0..MaxEntries} :
     \A i, j \in 1..Len(t) : i # j => t[i].field # t[j].field}

InitRename ==
  /\ fieldsPropsMap \in Tables
  /\ idFields = <<>>
  /\ \E dd \in DocsOver(RenameKeys, RenameValues) :
       LET b == Build(<<>>, dd, <<>>, 1)
       IN /\ heap = b.heap
          /\ mapper = [given |-> dd, input |-> b.ref, cur |-> b.ref,
                       steps |-> <<>>, threw |-> FALSE]
  /\ store = <<>>
  /\ call = NoCall
  /\ collections = 0
  /\ drops = <<>>

\* toStored: mapDataToDocument on the current document
ToStored ==
  /\ mapper.steps = <<>>
  /\ LET r == mapDataToDocument(heap, mapper.cur)
     IN /\ heap' = r.heap
        /\ mapper' = [mapper EXCEPT !.cur = r.ref, !.steps = Append(@, "toStored")]
  /\ UNCHANGED <<fieldsPropsMap, idFields, store, call, collections, drops>>

\* toApplication: mapDocumentToData on the current document
ToApplication ==
  /\ mapper.steps = <<"toStored">>
  /\ LET r == mapDocumentToData(heap, mapper.cur)
     IN /\ heap' = r.heap
        /\ mapper' = [mapper EXCEPT !.cur = r.ref, !.steps = Append(@, "toApplication")]
  /\ UNCHANGED <<fieldsPropsMap, idFields, store, call, collections, drops>>

NextRename == ToStored \/ ToApplication

SpecRename == InitRename /\ [][NextRename]_vars

---------------------------------------------------------------------------
(* What the specification says of the renaming, in terms of the rename     *)
(* table alone.                                                            *)

\* the rename table's application names are distinct
DistinctProps ==
  \A i, j \in 1..Len(fieldsPropsMap) :
    i # j => fieldsPropsMap[i].prop # fieldsPropsMap[j].prop
IsProp(k) == \E i \in 1..Len(fieldsPropsMap) : fieldsPropsMap[i].prop = k
IsField(k) == \E i \in 1..Len(fieldsPropsMap) : fieldsPropsMap[i].field = k
\* the stored name of an application name, the key itself for any other
StoredName(k) ==
  IF IsProp(k)
  THEN fieldsPropsMap[CHOOSE i \in 1..Len(fieldsPropsMap) : fieldsPropsMap[i].prop = k].field
  ELSE k
\* the key-wise rewrite of a deep document
Rewritten(dd) == {[f EXCEPT !.k = StoredName(f.k)] : f \in Fields(dd)}
\* the keys of dd map to distinct output keys
DistinctOutputs(dd) ==
  \A f, g \in Fields(dd) : f.k # g.k => StoredName(f.k) # StoredName(g.k)
\* a null primary identifier: a null field that the rewrite names _id
NullPrimary(f) == f.k = "_id" /\ f.t = "null"
HasNullPrimary(dd) == \E f \in Rewritten(dd) : NullPrimary(f)

\* C4 (as stated): with distinct application names, for every document
\* without a null primary identifier, toApplication(toStored(d)) has the
\* key set and the values of d, also when d holds a key that is a stored
\* field name of the rename table.
C4_RoundTripAnyKeys ==
  (/\ mapper.steps = <<"toStored", "toApplication">>
   /\ DistinctProps
   /\ ~HasNullPrimary(mapper.given))
  => SameDoc(Deep(heap, mapper.cur), mapper.given)

\* C4 (amended): with distinct application names, for every document
\* without a null primary identifier and without a key that is a stored
\* field name of the rename table, toApplication(toStored(d)) has the key
\* set and the values of d.
C4_RoundTrip ==
  (/\ mapper.steps = <<"toStored", "toApplication">>
   /\ DistinctProps
   /\ ~HasNullPrimary(mapper.given)
   /\ \A f \in Fields(mapper.given) : ~IsField(f.k))
  => SameDoc(Deep(heap, mapper.cur), mapper.given)

\* a round trip of a two-field document, one field renamed on the way,
\* under a table of two entries
C4_Witness ==
  /\ mapper.steps = <<"toStored", "toApplication">>
  /\ DistinctProps
  /\ Len(fieldsPropsMap) = 2
  /\ Len(mapper.given) = 2
  /\ ~HasNullPrimary(mapper.given)
  /\ \A f \in Fields(mapper.given) : ~IsField(f.k)
  /\ \E f \in Fields(mapper.given) : IsProp(f.k) /\ f.t = "str"
  /\ \E f \in Fields(mapper.given) : ~IsProp(f.k)

\* C5: toStored(d) is the key-wise rewrite of d: for every rename table
\* with distinct application names, in any entry order, and every document
\* whose keys map to distinct output keys, the output holds one field per
\* field of d, under the stored name if the key is an application name and
\* under the same key otherwise, with the value unchanged (a null primary
\* identifier aside).
C5_KeyWiseRewrite ==
  (/\ mapper.steps = <<"toStored">>
   /\ DistinctProps
   /\ DistinctOutputs(mapper.given))
  => Fields(Deep(heap, mapper.cur))
       = {f \in Rewritten(mapper.given) : ~NullPrimary(f)}

---------------------------------------------------------------------------
(* SpecCoerce: the identifier coercion on its own.  Init draws the         *)
(* selectors and a document; the action applies parseStringsIDs to it, a   *)
(* second time for the way back.                                           *)

CoerceKeys == <<"_id", "a", "b">>
CoerceValues ==
  {FieldVal(Null), FieldVal(Str("x")), FieldVal(Str("h1")), FieldVal(Oid("h2")),
   ArrayVal(<<Elem(Str("h1")), Elem(Oid("h2"))>>), ArrayVal(<<Elem(Str("x"))>>)}
Selectors ==
  {Exact("_id"), Exact("a"), Pattern("/^a/", {"a"}), Pattern("/_id|b/", {"_id", "b"})}

\* largest number of selectors of idFields
MaxSelectors == 2

SelectorLists ==
  {l \in UNION {[1..n -> Selectors] : n \in 0..MaxSelectors} :
     \A i, j \in 1..Len(l) : i # j => l[i] # l[j]}

InitCoerce ==
  /\ fieldsPropsMap = <<>>
  /\ idFields \in SelectorLists
  /\ \E dd \in DocsOver(CoerceKeys, CoerceValues) :
       LET b == Build(<<>>, dd, <<>>, 1)
       IN /\ heap = b.heap
          /\ mapper = [given |-> dd, input |-> b.ref, cur |-> b.ref,
                       steps |-> <<>>, threw |-> FALSE]
  /\ store = <<>>
  /\ call = NoCall
  /\ collections = 0
  /\ drops = <<>>

\* coerceIdentifiers: parseStringsIDs on the current document
Coerce ==
  /\ Len(mapper.steps) < 2
  /\ ~mapper.threw
  /\ LET r == parseStringsIDs(heap, mapper.cur)
     IN /\ heap' = r.heap
        /\ mapper' = [mapper EXCEPT !.steps = Append(@, "coerce"), !.threw = r.threw]
  /\ UNCHANGED <<fieldsPropsMap, idFields, store, call, collections, drops>>

NextCoerce == Coerce

SpecCoerce == InitCoerce /\ [][NextCoerce]_vars

\* the key matches the Identifier Field Selector Set, by name or by pattern
Selected(k) ==
  \E j \in 1..Len(idFields) :
    \/ idFields[j].re /\ k \in idFields[j].matches
    \/ ~idFields[j].re /\ k = idFields[j].name
\* the field can be coerced: its value, or each of its elements, is an
\* identifier or a well-formed identifier string
Coercible(f) ==
  IF f.t = "arr" THEN \A i \in 1..Len(f.items) : Parsable(f.items[i].v)
  ELSE Parsable([t |-> f.t, v |-> f.v, r |-> 0])
\* the field with every element coerced on its own
ElementWise(f) ==
  [f EXCEPT !.items = [i \in 1..Len(f.items) |-> Elem(parseValue(f.items[i].v))]]

\* C6: coerceIdentifiers on a document whose selected fields can all be
\* coerced succeeds, turns every selected array, whether selected by exact
\* name or by pattern, into the array of its elements' coercions (same
\* length, same order), and leaves the fields no selector matches as they
\* were.
C6_ArraysElementWise ==
  (/\ mapper.steps = <<"coerce">>
   /\ \A f \in Fields(mapper.given) : Selected(f.k) => Coercible(f))
  => /\ ~mapper.threw
     /\ \A f \in Fields(mapper.given) :
          /\ (Selected(f.k) /\ f.t = "arr") => ElementWise(f) \in Fields(Deep(heap, mapper.cur))
          /\ ~Selected(f.k) => f \in Fields(Deep(heap, mapper.cur))

---------------------------------------------------------------------------
(* The driver: the collection as a sequence of records (deep documents),   *)
(* a filter matching the records that hold each of its fields with an      *)
(* equal value of the same type.                                           *)

MatchesFilter(rec, filter) == Fields(filter) \subseteq Fields(rec)
\* collection.find(filter)
find(filter) == SelectSeq(store, LAMBDA rec : MatchesFilter(rec, filter))
\* collection.findOne(filter): the first match, or none
findOne(filter) == IF find(filter) = <<>> THEN <<>> ELSE <<Head(find(filter))>>
\* the _id values the collection holds
StoredIds == {f \in UNION {Fields(store[i]) : i \in 1..Len(store)} : f.k = "_id"}
\* updateMany's effect on one record: the fields of values are set
RECURSIVE SetFields(_, _, _)
SetFields(rec, values, i) ==
  IF i > Len(values) THEN rec
  ELSE SetFields(
         IF \E j \in 1..Len(rec) : rec[j].k = values[i].k
         THEN [j \in 1..Len(rec) |-> IF rec[j].k = values[i].k THEN values[i] ELSE rec[j]]
         ELSE Append(rec, values[i]),
         values, i + 1)
\* `${value}`: the string a template literal makes of an identifier
StringOf(f) == f.v

---------------------------------------------------------------------------
(* The facade's operations.  Each is one action: the caller's arguments    *)
(* are built on a fresh heap, the handler runs to its end, and call keeps  *)
(* what went in, what the driver was given and what came back, until the   *)
(* caller has taken the result.                                            *)

NoDoc == <<>>
Called(op, filterRef, filter, valuesRef, values) ==
  [op |-> op, filterRef |-> filterRef, filter |-> filter,
   valuesRef |-> valuesRef, values |-> values,
   driver |-> "none", sentFilter |-> NoDoc, sentDoc |-> NoDoc,
   found |-> <<>>, outcome |-> "ok", records |-> <<>>, count |-> 0, id |-> ""]

\* filter ?? {}, lines 163, 176, 184
OrEmpty(h, ref) == IF ref = NoRef THEN Alloc(h, <<>>) ELSE [heap |-> h, ref |-> ref]

\* the caller's argument: a document, or none
Argument(h, dd, present) ==
  IF present THEN Build(h, dd, <<>>, 1) ELSE [heap |-> h, ref |-> NoRef]

\* count, lines 65-67
Count(filter) ==
  /\ call = NoCall
  /\ LET a == Build(<<>>, filter, <<>>, 1)
     IN /\ heap' = a.heap
        /\ call' = [Called("count", a.ref, filter, NoRef, NoDoc) EXCEPT
                      !.driver = "countDocuments",
                      !.sentFilter = Deep(a.heap, a.ref),
                      !.count = Len(find(Deep(a.heap, a.ref)))]
  /\ UNCHANGED <<fieldsPropsMap, idFields, mapper, store, collections, drops>>

\* delete, lines 69-71
Delete(filter) ==
  /\ call = NoCall
  /\ LET a == Build(<<>>, filter, <<>>, 1)
         sent == Deep(a.heap, a.ref)
     IN /\ heap' = a.heap
        /\ store' = SelectSeq(store, LAMBDA rec : ~MatchesFilter(rec, sent))
        /\ call' = [Called("delete", a.ref, filter, NoRef, NoDoc) EXCEPT
                      !.driver = "deleteMany",
                      !.sentFilter = sent,
                      !.count = Len(find(sent))]
  /\ UNCHANGED <<fieldsPropsMap, idFields, mapper, collections, drops>>

\* insert, lines 95-100; generated is the identifier the driver makes up
\* when the document brings none
Insert(values, present, generated) ==
  /\ call = NoCall
  /\ Len(store) < MaxStore
  /\ Oid(generated) \notin {[t |-> f.t, v |-> f.v, r |-> 0] : f \in StoredIds}
  /\ LET a == Argument(<<>>, values, present)
         mappedData == mapDataToDocument(a.heap, a.ref)
         parsedData == parseStringsIDs(mappedData.heap, mappedData.ref)
         sent == Deep(parsedData.heap, parsedData.ref)
         begun == Called("insert", NoRef, NoDoc, a.ref, IF present THEN values ELSE NoDoc)
     IN IF parsedData.threw
        THEN /\ heap' = parsedData.heap
             /\ call' = [begun EXCEPT !.outcome = "threw"]
             /\ UNCHANGED store
        ELSE LET given == {f \in Fields(sent) : f.k = "_id"}
                 \* insertOne adds the _id it generated to the document it was given
                 kept == IF given = {} THEN Scalar("_id", Oid(generated))
                         ELSE CHOOSE f \in given : TRUE
                 withId == IF given = {}
                           THEN [parsedData.heap EXCEPT ![parsedData.ref] =
                                   Set(@, "_id", Oid(generated))]
                           ELSE parsedData.heap
             IN IF kept \in StoredIds
                THEN \* duplicate key: insertOne rejects
                     /\ heap' = withId
                     /\ call' = [begun EXCEPT !.driver = "insertOne", !.sentDoc = sent,
                                              !.outcome = "threw"]
                     /\ UNCHANGED store
                ELSE /\ heap' = withId
                     /\ store' = Append(store, Deep(withId, parsedData.ref))
                     /\ call' = [begun EXCEPT !.driver = "insertOne", !.sentDoc = sent,
                                              !.id = StringOf(kept)]
  /\ UNCHANGED <<fieldsPropsMap, idFields, mapper, collections, drops>>

RECURSIVE MapRecords(_, _, _)
\* lines 165-168 over the records found, from record i on: each is mapped
\* and its identifiers parsed; s.threw once one of them throws
MapRecords(s, found, i) ==
  IF s.threw \/ i > Len(found) THEN s
  ELSE LET document == Build(s.heap, found[i], <<>>, 1)
           mappedData == mapDocumentToData(document.heap, document.ref)
           parsed == parseStringsIDs(mappedData.heap, mappedData.ref)
       IN MapRecords([heap |-> parsed.heap, threw |-> parsed.threw,
                      records |-> IF parsed.threw THEN s.records
                                  ELSE Append(s.records, Deep(parsed.heap, parsed.ref))],
                     found, i + 1)

\* select, lines 162-170
Select(filter, present) ==
  /\ call = NoCall
  /\ LET a == Argument(<<>>, filter, present)
         e == OrEmpty(a.heap, a.ref)
         parsedFilter == mapDataToDocument(e.heap, e.ref)
         sent == Deep(parsedFilter.heap, parsedFilter.ref)
         documents == find(sent)
         s == MapRecords([heap |-> parsedFilter.heap, threw |-> FALSE, records |-> <<>>],
                         documents, 1)
     IN /\ heap' = s.heap
        /\ call' = [Called("select", a.ref, IF present THEN filter ELSE NoDoc, NoRef, NoDoc)
                      EXCEPT !.driver = "find", !.sentFilter = sent, !.found = documents,
                             !.outcome = IF s.threw THEN "threw" ELSE "ok",
                             !.records = IF s.threw THEN <<>> ELSE s.records]
  /\ UNCHANGED <<fieldsPropsMap, idFields, mapper, store, collections, drops>>

\* selectOne, lines 172-181
SelectOne(filter, present) ==
  /\ call = NoCall
  /\ LET a == Argument(<<>>, filter, present)
         e == OrEmpty(a.heap, a.ref)
         parsedFilter == mapDataToDocument(e.heap, e.ref)
         sent == Deep(parsedFilter.heap, parsedFilter.ref)
         document == findOne(sent)
         s == MapRecords([heap |-> parsedFilter.heap, threw |-> FALSE, records |-> <<>>],
                         document, 1)
     IN /\ heap' = s.heap
        /\ call' = [Called("selectOne", a.ref, IF present THEN filter ELSE NoDoc, NoRef, NoDoc)
                      EXCEPT !.driver = "findOne", !.sentFilter = sent, !.found = document,
                             !.outcome = IF s.threw THEN "threw" ELSE "ok",
                             !.records = IF s.threw THEN <<>> ELSE s.records]
  /\ UNCHANGED <<fieldsPropsMap, idFields, mapper, store, collections, drops>>

\* update, lines 183-190
Update(filter, present, values) ==
  /\ call = NoCall
  /\ LET a == Argument(<<>>, filter, present)
         v == Build(a.heap, values, <<>>, 1)
         e == OrEmpty(v.heap, a.ref)
         parsedFilter == mapDataToDocument(e.heap, e.ref)
         sent == Deep(parsedFilter.heap, parsedFilter.ref)
         sentValues == Deep(parsedFilter.heap, v.ref)
         changed(rec) == MatchesFilter(rec, sent) /\ SetFields(rec, sentValues, 1) # rec
     IN /\ heap' = parsedFilter.heap
        /\ store' = [i \in 1..Len(store) |->
                       IF MatchesFilter(store[i], sent)
                       THEN SetFields(store[i], sentValues, 1) ELSE store[i]]
        /\ call' = [Called("update", a.ref, IF present THEN filter ELSE NoDoc, v.ref, values)
                      EXCEPT !.driver = "updateMany", !.sentFilter = sent,
                             !.sentDoc = sentValues,
                             !.count = Len(SelectSeq(store, changed))]
  /\ UNCHANGED <<fieldsPropsMap, idFields, mapper, collections, drops>>

\* the caller takes the result: the promise settles, the call's objects go
Return ==
  /\ call # NoCall
  /\ call' = NoCall
  /\ heap' = <<>>
  /\ UNCHANGED <<fieldsPropsMap, idFields, mapper, store, collections, drops>>

---------------------------------------------------------------------------
(* SpecFacade: the CRUD operations against a collection that starts empty. *)
(* Init draws the configuration; with it come the documents its callers    *)
(* pass.                                                                   *)

Entry(field, prop) == [field |-> field, prop |-> prop]
IdList == ArrayVal(<<Elem(Str("h1")), Elem(Str("h2"))>>)

\* the scenario of the specification: _id and usr_name renamed, _id an
\* identifier by exact name
ScenarioConfig ==
  [table |-> <<Entry("_id", "id"), Entry("usr_name", "username")>>,
   idFields |-> <<Exact("_id")>>,
   insertKeys |-> <<"id", "username">>,
   insertValues |-> {FieldVal(Str("ann")), FieldVal(Str("h1"))},
   filterKeys |-> <<"_id", "id", "username">>,
   filterValues |-> {FieldVal(Str("ann")), FieldVal(Str("h1"))},
   updates |-> {<<Scalar("username", Str("ann"))>>}]
\* the identifier selected under both of its names
BothNamesConfig ==
  [table |-> <<Entry("_id", "id")>>,
   idFields |-> <<Exact("_id"), Exact("id")>>,
   insertKeys |-> <<"_id", "id">>,
   insertValues |-> {FieldVal(Null), FieldVal(Str("h1")), FieldVal(Oid("h2"))},
   filterKeys |-> <<"_id", "id">>,
   filterValues |-> {FieldVal(Str("h1")), FieldVal(Oid("h1")), FieldVal(Str("h2"))},
   updates |-> {<<Scalar("id", Str("h1"))>>}]
\* identifier arrays selected by pattern, their field renamed
PatternConfig ==
  [table |-> <<Entry("ref_ids", "refs")>>,
   idFields |-> <<Pattern("/_ids?$/", {"_id", "ref_ids"})>>,
   insertKeys |-> <<"refs", "ref_ids">>,
   insertValues |-> {FieldVal(Str("h1")), FieldVal(Str("x")), IdList},
   filterKeys |-> <<"_id", "refs">>,
   filterValues |-> {FieldVal(Str("h1")), IdList},
   updates |-> {<<Array("refs", IdList.items)>>}]
FacadeConfigs == {ScenarioConfig, BothNamesConfig, PatternConfig}

\* the configuration the facade was constructed with
Config == CHOOSE c \in FacadeConfigs : c.table = fieldsPropsMap /\ c.idFields = idFields

InitFacade ==
  /\ \E c \in FacadeConfigs : fieldsPropsMap = c.table /\ idFields = c.idFields
  /\ heap = <<>>
  /\ mapper = NoMapper
  /\ store = <<>>
  /\ call = NoCall
  /\ collections = 0
  /\ drops = <<>>

NextFacade ==
  \/ \E filter \in DocsOver(Config.filterKeys, Config.filterValues) : Count(filter)
  \/ \E filter \in DocsOver(Config.filterKeys, Config.filterValues) : Delete(filter)
  \/ \E values \in DocsOver(Config.insertKeys, Config.insertValues) :
       \E present \in BOOLEAN, generated \in HexStrings :
         Insert(values, present, generated)
  \/ \E filter \in DocsOver(Config.filterKeys, Config.filterValues) :
       \E present \in BOOLEAN : Select(filter, present)
  \/ \E filter \in DocsOver(Config.filterKeys, Config.filterValues) :
       \E present \in BOOLEAN : SelectOne(filter, present)
  \/ \E filter \in DocsOver(Config.filterKeys, Config.filterValues) :
       \E present \in BOOLEAN, values \in Config.updates :
         Update(filter, present, values)
  \/ Return

SpecFacade == InitFacade /\ [][NextFacade]_vars

\* C1: every record select or selectOne hands back is in application form
\* with its identifiers as strings: a stored field that idFields selects
\* and that holds a native identifier is in the result under its
\* application name, with the identifier's hex string as value.
C1_IdentifiersComeBackAsStrings ==
  (call # NoCall /\ call.op \in {"select", "selectOne"} /\ call.outcome = "ok")
  => \A i \in 1..Len(call.found) :
       \A f \in Fields(call.found[i]) :
         (Selected(f.k) /\ f.t = "oid")
         => [f EXCEPT !.k = PropOf(f.k), !.t = "str"] \in Fields(call.records[i])

\* the record insert({username: "ann"}) leaves in the collection when the
\* driver assigns the identifier h
AnnWithId(h) == {Scalar("usr_name", Str("ann")), Scalar("_id", Oid(h))}

\* C2: in the scenario's configuration, once insert({username: "ann"}) has
\* stored its record under the driver-assigned identifier X and returned
\* X's string s, selectOne({id: s}) gives the driver the filter {_id: X}
\* and so finds that record.
C2_LookupByReturnedId ==
  \A h \in HexStrings :
    (/\ call # NoCall /\ call.op = "selectOne"
     /\ fieldsPropsMap = ScenarioConfig.table /\ idFields = ScenarioConfig.idFields
     /\ call.filter = <<Scalar("id", Str(h))>>
     /\ \E i \in 1..Len(store) : Fields(store[i]) = AnnWithId(h))
    => /\ call.sentFilter = <<Scalar("_id", Oid(h))>>
       /\ \E i \in 1..Len(call.found) : Fields(call.found[i]) = AnnWithId(h)

\* C3: count, delete, select, selectOne and update all give the driver
\* toStored(filter): each filter field under its stored name when its key
\* is an application name, under its own key otherwise.
C3_FiltersReachDriverStored ==
  (/\ call # NoCall
   /\ call.op \in {"count", "delete", "select", "selectOne", "update"}
   /\ DistinctOutputs(call.filter))
  => Fields(call.sentFilter) = {f \in Rewritten(call.filter) : ~NullPrimary(f)}

\* the names a caller may give the primary identifier under
PrimaryNames == {"_id", PropOf("_id")}

\* C7: when the value given to insert holds its primary identifier, under
\* the application name or under _id, as null or not at all, the document
\* given to insertOne has no _id field.
C7_NullPrimaryIdNotSent ==
  (/\ call # NoCall /\ call.op = "insert" /\ call.driver = "insertOne"
   /\ \A f \in Fields(call.values) : f.k \in PrimaryNames => f.t = "null")
  => \A g \in Fields(call.sentDoc) : g.k # "_id"

\* an insert reached the driver with the primary identifier null under
\* both of its names
C7_Witness ==
  /\ call # NoCall /\ call.op = "insert" /\ call.driver = "insertOne"
  /\ PropOf("_id") # "_id"
  /\ Scalar("_id", Null) \in Fields(call.values)
  /\ Scalar(PropOf("_id"), Null) \in Fields(call.values)

\* C9: insert, select, selectOne and update leave the caller's documents
\* as they were, key by key and array element by array element, whether
\* the call returned or threw.
C9_ArgumentsUntouched ==
  (call # NoCall /\ call.op \in {"insert", "select", "selectOne", "update"})
  => /\ call.filterRef # NoRef => Deep(heap, call.filterRef) = call.filter
     /\ call.valuesRef # NoRef => Deep(heap, call.valuesRef) = call.values

\* an insert whose value had a field renamed and an identifier array
\* coerced on the way to the driver
C9_Witness ==
  /\ call # NoCall /\ call.op = "insert" /\ call.driver = "insertOne"
  /\ Array("refs", IdList.items) \in Fields(call.values)
  /\ Array("ref_ids", <<Elem(Oid("h1")), Elem(Oid("h2"))>>) \in Fields(call.sentDoc)
  /\ Deep(heap, call.valuesRef) = call.values

---------------------------------------------------------------------------
(* drop, lines 73-93.  A call runs up to its next await in one step: it    *)
(* issues listCollections, takes the listing and issues the drop, takes    *)
(* the drop's outcome.  collections is what the driver would list under    *)
(* collectionName; drops.log the driver calls issued, in order.            *)

\* largest number of collections the driver lists under collectionName
MaxCollections == 2

Idle == [pc |-> "idle", sure |-> FALSE, listed |-> -1, hit |-> "none", ret |-> "none"]
Callers == 1..MaxDrops
By(i, op) == [by |-> i, op |-> op]
\* the driver calls call i has issued
Issued(i, op) == Len(SelectSeq(drops.log, LAMBDA e : e = By(i, op)))

InitDrop ==
  /\ fieldsPropsMap = <<>>
  /\ idFields = <<>>
  /\ heap = <<>>
  /\ mapper = NoMapper
  /\ store = <<>>
  /\ call = NoCall
  /\ collections \in 0..MaxCollections
  /\ drops = [initially |-> collections, calls |-> [i \in Callers |-> Idle], log |-> <<>>]

\* a slip of lines 80-88: the listing's length is not checked against 1
AfterListingUnchecked(n) == IF n >= 1 THEN "drop" ELSE "return"

\* lines 80-90: what the call does with a listing of n collections
AfterListing(n) ==
  IF n > 1 THEN "throw" ELSE IF n = 1 THEN "drop" ELSE "return"

\* drop(sure) is called, lines 74-78: without sure it returns false; with
\* it, it asks the driver for the collections of its name
Drop(i, sure) ==
  /\ drops.calls[i].pc = "idle"
  /\ drops' = IF sure
              THEN [drops EXCEPT !.calls[i].pc = "listing", !.calls[i].sure = TRUE,
                                 !.log = Append(@, By(i, "listCollections"))]
              ELSE [drops EXCEPT !.calls[i].pc = "done", !.calls[i].ret = "false"]
  /\ UNCHANGED <<fieldsPropsMap, idFields, heap, mapper, store, call, collections>>

\* the listing arrives, lines 80-90
Listed(i) ==
  /\ drops.calls[i].pc = "listing"
  /\ LET c == [drops.calls[i] EXCEPT !.listed = collections]
         next == AfterListing(collections)
     IN drops' =
          CASE next = "throw" ->
                 [drops EXCEPT !.calls[i] = [c EXCEPT !.pc = "done", !.ret = "threw"]]
            [] next = "drop" ->
                 [drops EXCEPT !.calls[i] = [c EXCEPT !.pc = "dropping"],
                               !.log = Append(@, By(i, "drop"))]
            [] OTHER ->
                 [drops EXCEPT !.calls[i] = [c EXCEPT !.pc = "done", !.ret = "true"]]
  /\ UNCHANGED <<fieldsPropsMap, idFields, heap, mapper, store, call, collections>>

\* the drop is carried out, lines 87-90: of a collection that is gone the
\* driver reports "ns not found" or nothing, by its version
Dropped(i) ==
  /\ drops.calls[i].pc = "dropping"
  /\ \E rejected \in (IF collections = 0 THEN BOOLEAN ELSE {FALSE}) :
       drops' = [drops EXCEPT
                   !.calls[i].pc = "done",
                   !.calls[i].hit = IF collections = 0 THEN "absent" ELSE "existing",
                   !.calls[i].ret = IF rejected THEN "threw" ELSE "true"]
  /\ collections' = IF collections = 0 THEN 0 ELSE collections - 1
  /\ UNCHANGED <<fieldsPropsMap, idFields, heap, mapper, store, call>>

\* every call issued has returned
AllReturned == \A j \in Callers : drops.calls[j].pc \in {"idle", "done"}

\* SpecDropInTurn: each call is issued after the one before has returned
NextDropInTurn ==
  \/ \E i \in Callers, sure \in BOOLEAN : AllReturned /\ Drop(i, sure)
  \/ \E i \in Callers : Listed(i)
  \/ \E i \in Callers : Dropped(i)

SpecDropInTurn == InitDrop /\ [][NextDropInTurn]_vars

\* SpecDrop: the calls are issued at any time
NextDrop ==
  \/ \E i \in Callers, sure \in BOOLEAN : Drop(i, sure)
  \/ \E i \in Callers : Listed(i)
  \/ \E i \in Callers : Dropped(i)

SpecDrop == InitDrop /\ [][NextDrop]_vars

\* C8: drop(sure) issues the driver's drop exactly when sure is true and
\* the listing has one entry: without sure it issues no driver call and
\* returns false; on an empty listing it returns true without a drop; on
\* a listing of one it drops and returns true; on a longer one it throws
\* without a drop.
C8_DropOnlyOnSingleListing ==
  \A i \in Callers :
    LET c == drops.calls[i]
    IN /\ (c.pc # "idle" /\ ~c.sure)
          => /\ c.pc = "done" /\ c.ret = "false"
             /\ Issued(i, "listCollections") = 0 /\ Issued(i, "drop") = 0
       /\ (c.pc = "done" /\ c.sure /\ c.listed = 0)
          => c.ret = "true" /\ Issued(i, "drop") = 0
       /\ (c.pc = "done" /\ c.sure /\ c.listed = 1)
          => c.ret = "true" /\ Issued(i, "drop") = 1 /\ c.hit = "existing"
       /\ (c.pc = "done" /\ c.sure /\ c.listed > 1)
          => c.ret = "threw" /\ Issued(i, "drop") = 0
       /\ Issued(i, "drop") > 0 <=> (c.sure /\ c.listed = 1)

\* one call found the collection and dropped it, the next found none and
\* returned true without a drop
C8_Witness ==
  \E i, j \in Callers :
    /\ drops.calls[i].pc = "done" /\ drops.calls[i].listed = 1
    /\ drops.calls[i].ret = "true" /\ Issued(i, "drop") = 1
    /\ drops.calls[j].pc = "done" /\ drops.calls[j].listed = 0
    /\ drops.calls[j].ret = "true" /\ Issued(j, "drop") = 0

\* C10: when drop(true) calls run together against one collection of the
\* name, in any interleaving the driver's drop is issued at most once,
\* never for a collection already dropped, and every call returns true.
C10_DropsTogetherDropOnce ==
  (/\ drops.initially = 1
   /\ \A i \in Callers : drops.calls[i].pc # "idle" => drops.calls[i].sure)
  => /\ Cardinality({i \in Callers : Issued(i, "drop") > 0}) <= 1
     /\ \A i \in Callers : drops.calls[i].hit # "absent"
     /\ \A i \in Callers : drops.calls[i].pc = "done" => drops.calls[i].ret = "true"

=============================================================================
